---- MODULE Spec2Model ----
(***************************************************************************)
(* Model of sentry/grouping/strategies/base.py: the variant resolution     *)
(* algorithm (produces_variants / call_with_variants), the scoped          *)
(* GroupingContext it runs in, the strategy registry and the composition   *)
(* of strategy configurations (create_strategy_configuration).             *)
(*                                                                         *)
(* Python strings are modelled as sequences of tokens, so that slicing,    *)
(* lstrip, "+" and "%" formatting are computed rather than assumed.        *)
(***************************************************************************)
EXTENDS Integers, Sequences, FiniteSets, TLC

VARIABLES
    \* ---- one evaluation of a strategy decorated with produces_variants
    pc,             \* position of the evaluation
    variants,       \* the candidate list given to produces_variants
    stack,          \* GroupingContext._stack
    idx,            \* position of the `for variant in variants` loop
    is_mandatory,   \* local of call_with_variants
    variant,        \* local of call_with_variants
    rv,             \* local of call_with_variants; the mapping it returns
    has_mandatory_hashes,
    mandatory_contributing_hashes,
    optional_contributing_variants,
    prevent_contribution,
    dedup_idx,      \* position of the `for variant in optional_...` loop
    calls,          \* the values of context["variant"] f was invoked under
    produced,       \* the components as f returned them, by variant name
    outcome,        \* how the evaluation ended
    bound_interfaces, \* Strategy.interfaces of the strategy evaluated
    event,          \* the interface paths present in event.interfaces
    gcv_result,     \* what get_grouping_component_variants returned
    dispatch,       \* the running call of GroupingContext.get_grouping_component
    \* ---- registry and configurations
    STRATEGIES,     \* the module-level registry
    registrations,  \* every entry stored into the registry, in order
    config,         \* the configuration built last, available as a base
    build           \* the last call of create_strategy_configuration

cvVars == <<pc, variants, stack, idx, is_mandatory, variant, rv,
            has_mandatory_hashes, mandatory_contributing_hashes,
            optional_contributing_variants, prevent_contribution, dedup_idx,
            calls, produced, outcome, bound_interfaces, event, gcv_result,
            dispatch>>
applyVars == <<bound_interfaces, event, gcv_result>>
cfgVars == <<STRATEGIES, registrations, config, build>>
vars == <<cvVars, cfgVars>>

----------------------------------------------------------------------------
(* Bounds *)

MaxVariants == 3

\* Strategy ids and delegate ids requested in one create_strategy_configuration.
MaxRequested == 3

\* Longest candidate list where every event and interface list is tried.
MaxApplyVariants == 1

\* Deepest stack of overlays built by free use of push.
MaxDepth == 3

\* Most entries stored into the registry by the decorator.
MaxRegistrations == 3

\* Most ids, over both lists, of a build whose base is changed afterwards.
MaxSharedRequested == 2

\* Deepest stack reached by scopes that f opens through nested strategy calls.
MaxNestedDepth == 5

----------------------------------------------------------------------------
(* Values *)

\* Python's None; distinct from every string of the input space.
None == <<"<None>">>

Range(s) == {s[k] : k \in 1..Len(s)}

EmptyMap == [x \in {} |-> None]

VariantNames == {<<"system">>, <<"app">>, <<"frames">>, <<"default">>}

Hashes == {"h1", "h2"}

\* The candidate strings a decorator may declare: a name, optionally "!"-prefixed.
Candidates == VariantNames \cup {<<"!">> \o n : n \in VariantNames}

\* variant[:1] == "!"
IsMandatory(raw) == SubSeq(raw, 1, 1) = <<"!">>

\* LStrip that leaves the marker in place.
LStrip_Keep(raw) == raw

\* variant.lstrip("!")
RECURSIVE LStrip(_)
LStrip(raw) ==
    IF raw # <<>> /\ Head(raw) = "!" THEN LStrip(Tail(raw)) ELSE raw

\* A grouping component as the algorithm sees it: contributes, get_hash(), hint.
NoComponent == [isNone |-> TRUE, contributes |-> FALSE, hash |-> "", hint |-> None]

Components ==
    {[isNone |-> FALSE, contributes |-> c, hash |-> h, hint |-> None] :
        c \in BOOLEAN, h \in Hashes}

\* component.update(contributes=..., hint=...)
Update(component, contributes, hint) ==
    [component EXCEPT !.contributes = contributes, !.hint = hint]

----------------------------------------------------------------------------
(* GroupingContext *)

\* CtxGet that searches the overlays from the bottom.
RECURSIVE CtxGet_BottomUp(_, _)
CtxGet_BottomUp(st, key) ==
    IF st = <<>> THEN <<"<KeyError>">>
    ELSE IF key \in DOMAIN st[1] THEN st[1][key]
    ELSE CtxGet_BottomUp(Tail(st), key)

\* __getitem__: the nearest overlay from the top that defines the key.
RECURSIVE CtxGet(_, _)
CtxGet(st, key) ==
    IF st = <<>> THEN <<"<KeyError>">>
    ELSE IF key \in DOMAIN st[Len(st)] THEN st[Len(st)][key]
    ELSE CtxGet(SubSeq(st, 1, Len(st) - 1), key)

\* __setitem__: writes into the topmost overlay.
CtxSet(st, key, value) ==
    [st EXCEPT ![Len(st)] =
        [k \in DOMAIN st[Len(st)] \cup {key} |->
            IF k = key THEN value ELSE st[Len(st)][k]]]

Push(st) == Append(st, EmptyMap)

\* Pop that leaves the overlay on the stack.
Pop_Keep(st) == st

\* pop: self._stack.pop()
Pop(st) == SubSeq(st, 1, Len(st) - 1)

\* NewContext that writes "variant" without pushing an overlay first.
NewContext_NoPush(initial_context) ==
    CtxSet(<<initial_context>>, "variant", None)

\* __init__: the configuration's initial_context, a pushed overlay, variant = None.
NewContext(initial_context) ==
    CtxSet(Push(<<initial_context>>), "variant", None)

----------------------------------------------------------------------------
(* call_with_variants: pure parts *)

\* PinAccepted without the "!" alternative.
PinAccepted_PlainOnly(pinned, declared) == pinned \in Range(declared)

\* assert context["variant"] in variants or "!" + context["variant"] in variants
PinAccepted(pinned, declared) ==
    \/ pinned \in Range(declared)
    \/ <<"!">> \o pinned \in Range(declared)

\* Skipped that files null components too.
Skipped_Never(component) == FALSE

\* if component is None: continue
Skipped(component) == component.isNone

\* if is_mandatory: has_mandatory_hashes = True   (reached for non-None components)
NextHasMandatory(has, mandatory) == IF mandatory THEN TRUE ELSE has

\* NextMandatoryHashes that keeps the name already stored under a hash.
NextMandatoryHashes_KeepFirst(hashes, mandatory, component, name) ==
    IF component.contributes /\ mandatory /\ component.hash \notin DOMAIN hashes
    THEN [h \in DOMAIN hashes \cup {component.hash} |->
            IF h = component.hash THEN name ELSE hashes[h]]
    ELSE hashes

\* NextMandatoryHashes without the is_mandatory test.
NextMandatoryHashes_Any(hashes, mandatory, component, name) ==
    IF component.contributes
    THEN [h \in DOMAIN hashes \cup {component.hash} |->
            IF h = component.hash THEN name ELSE hashes[h]]
    ELSE hashes

\* mandatory_contributing_hashes[component.get_hash()] = variant
NextMandatoryHashes(hashes, mandatory, component, name) ==
    IF component.contributes /\ mandatory
    THEN [h \in DOMAIN hashes \cup {component.hash} |->
            IF h = component.hash THEN name ELSE hashes[h]]
    ELSE hashes

\* NextOptionalVariants without the is_mandatory test.
NextOptionalVariants_Any(optional, mandatory, component, name) ==
    IF component.contributes THEN Append(optional, name) ELSE optional

\* optional_contributing_variants.append(variant)
NextOptionalVariants(optional, mandatory, component, name) ==
    IF component.contributes /\ ~mandatory THEN Append(optional, name) ELSE optional

\* rv[variant] = component
NextRv(map, name, component) ==
    [n \in DOMAIN map \cup {name} |-> IF n = name THEN component ELSE map[n]]

\* PreventContribution without the has_mandatory_hashes operand.
PreventContribution_NoHas(has, hashes) == DOMAIN hashes = {}

\* prevent_contribution = has_mandatory_hashes and not mandatory_contributing_hashes
PreventContribution(has, hashes) == has /\ DOMAIN hashes = {}

\* list(mandatory_contributing_hashes.values())[0] if len(...) == 1 else "other mandatory"
NotUsedName(hashes) ==
    IF Cardinality(DOMAIN hashes) = 1
    THEN hashes[CHOOSE h \in DOMAIN hashes : TRUE]
    ELSE <<"other mandatory">>

\* "ignored because %s variant is not used" % ...
NotUsedHint(name) == <<"ignored because ">> \o name \o <<" variant is not used">>

\* "ignored because hash matches %s variant" % duplicate_of
HashMatchesHint(name) == <<"ignored because hash matches ">> \o name \o <<" variant">>

\* mandatory_contributing_hashes.get(hash)
DuplicateOf(hashes, hash) == IF hash \in DOMAIN hashes THEN hashes[hash] ELSE None

\* The body of the `for variant in optional_contributing_variants` loop.
Dedup(component, prevent, hashes) ==
    IF prevent
    THEN Update(component, FALSE, NotUsedHint(NotUsedName(hashes)))
    ELSE IF DuplicateOf(hashes, component.hash) # None
         THEN Update(component, FALSE, HashMatchesHint(DuplicateOf(hashes, component.hash)))
         ELSE component

----------------------------------------------------------------------------
(* One evaluation: Strategy.get_grouping_component around call_with_variants *)

\* Candidate lists: ordered, names pairwise distinct.
CandidateLists ==
    {s \in UNION {[1..n -> Candidates] : n \in 0..MaxVariants} :
        \A a, b \in 1..Len(s) : a # b => LStrip(s[a]) # LStrip(s[b])}

\* The variant argument a caller may pass to Strategy.get_grouping_component.
VariantArgs == {None} \cup VariantNames \cup {<<"other">>}

\* Strategy.interfaces: the interfaces a strategy is bound to, in order.
InterfaceLists == {<<"x">>, <<"x", "y">>}

\* event.interfaces: the interfaces an event carries.
Events == SUBSET {"x", "y"}

\* AllPresent that looks up the first bound interface only.
AllPresent_FirstOnly(ifaces, ev) == ifaces = <<>> \/ Head(ifaces) \in ev

\* for iface_path in self.interfaces: if event.interfaces.get(iface_path) is None:
\* return None
RECURSIVE AllPresent(_, _)
AllPresent(ifaces, ev) ==
    IF ifaces = <<>> THEN TRUE
    ELSE IF Head(ifaces) \notin ev THEN FALSE
    ELSE AllPresent(Tail(ifaces), ev)

\* No call of GroupingContext.get_grouping_component is in progress.
NoDispatch ==
    [active |-> FALSE, path |-> "", invoked |-> <<>>,
     rv |-> [is_dict |-> FALSE, entries |-> EmptyMap],
     result |-> [error |-> "none", kind |-> "nothing", value |-> EmptyMap]]

InitCV ==
    /\ pc = "idle"
    /\ dispatch = NoDispatch
    /\ bound_interfaces \in InterfaceLists
    /\ event \in Events
    /\ gcv_result = None
    /\ variants \in CandidateLists
    /\ stack = NewContext(EmptyMap)
    /\ idx = 0
    /\ is_mandatory = FALSE
    /\ variant = None
    /\ rv = EmptyMap
    /\ has_mandatory_hashes = FALSE
    /\ mandatory_contributing_hashes = EmptyMap
    /\ optional_contributing_variants = <<>>
    /\ prevent_contribution = FALSE
    /\ dedup_idx = 0
    /\ calls = <<>>
    /\ produced = EmptyMap
    /\ outcome = "running"

\* Depth of the stack where f runs: the constructed context, the scope of
\* Strategy.get_grouping_component and, in the loop, the candidate's scope. Scopes
\* f opens through nested calls lie above it and are closed when f returns.
ScopeDepth(at) == IF at = "in_f" THEN 4 ELSE 3

\* Strategy.get_grouping_component: interface check, `with context`, pin.
StrategyEnter(present, arg) ==
    /\ pc = "idle"
    /\ IF ~present
       THEN /\ pc' = "done"
            /\ outcome' = "not_applicable"
            /\ stack' = stack
       ELSE /\ pc' = "cwv"
            /\ outcome' = outcome
            /\ stack' = IF arg # None THEN CtxSet(Push(stack), "variant", arg)
                        ELSE Push(stack)
    /\ UNCHANGED <<cfgVars, applyVars, dispatch>>
    /\ UNCHANGED <<variants, idx, is_mandatory, variant, rv, has_mandatory_hashes,
                   mandatory_contributing_hashes, optional_contributing_variants,
                   prevent_contribution, dedup_idx, calls, produced>>

\* call_with_variants up to the first call of f.
CwvEntry ==
    /\ pc = "cwv"
    /\ IF CtxGet(stack, "variant") # None
       THEN /\ pc' = IF PinAccepted(CtxGet(stack, "variant"), variants)
                     THEN "delegate" ELSE "raise"
            /\ outcome' = IF PinAccepted(CtxGet(stack, "variant"), variants)
                          THEN outcome ELSE "AssertionError"
            /\ idx' = idx
       ELSE /\ pc' = "loop"
            /\ outcome' = outcome
            /\ idx' = 1
    /\ rv' = EmptyMap
    /\ has_mandatory_hashes' = FALSE
    /\ mandatory_contributing_hashes' = EmptyMap
    /\ optional_contributing_variants' = <<>>
    /\ UNCHANGED <<cfgVars, applyVars, dispatch>>
    /\ UNCHANGED <<variants, stack, is_mandatory, variant, prevent_contribution,
                   dedup_idx, calls, produced>>

\* return f(*args, **kwargs) with the variant pinned by the caller.
DelegateCall(component) ==
    /\ pc = "delegate"
    /\ Len(stack) = ScopeDepth("delegate")
    /\ calls' = Append(calls, CtxGet(stack, "variant"))
    /\ produced' = NextRv(produced, CtxGet(stack, "variant"), component)
    /\ rv' = NextRv(EmptyMap, CtxGet(stack, "variant"), component)
    /\ pc' = "return"
    /\ UNCHANGED <<cfgVars, applyVars, dispatch>>
    /\ UNCHANGED <<variants, stack, idx, is_mandatory, variant, has_mandatory_hashes,
                   mandatory_contributing_hashes, optional_contributing_variants,
                   prevent_contribution, dedup_idx, outcome>>

\* While it runs, f sets a key of its own on the context it was handed.
StrategyWrites ==
    /\ pc \in {"in_f", "delegate"}
    /\ "k" \notin DOMAIN stack[Len(stack)]
    /\ stack' = CtxSet(stack, "k", <<"w">>)
    /\ UNCHANGED <<cfgVars, applyVars, dispatch>>
    /\ UNCHANGED <<pc, variants, idx, is_mandatory, variant, rv,
                   has_mandatory_hashes, mandatory_contributing_hashes,
                   optional_contributing_variants, prevent_contribution, dedup_idx,
                   calls, produced, outcome>>

\* f raises under the variant pinned by the caller; nothing is returned.
DelegateRaise ==
    /\ pc = "delegate"
    /\ Len(stack) = ScopeDepth("delegate")
    /\ calls' = Append(calls, CtxGet(stack, "variant"))
    /\ outcome' = "StrategyError"
    /\ pc' = "f_raised"
    /\ UNCHANGED <<cfgVars, applyVars, dispatch>>
    /\ UNCHANGED <<variants, stack, idx, is_mandatory, variant, rv,
                   has_mandatory_hashes, mandatory_contributing_hashes,
                   optional_contributing_variants, prevent_contribution, dedup_idx,
                   produced>>

\* Head of the candidate loop: `with context: context["variant"] = variant`.
LoopEnter ==
    /\ pc = "loop"
    /\ idx <= Len(variants)
    /\ is_mandatory' = IsMandatory(variants[idx])
    /\ variant' = LStrip(variants[idx])
    /\ stack' = CtxSet(Push(stack), "variant", LStrip(variants[idx]))
    /\ pc' = "in_f"
    /\ UNCHANGED <<cfgVars, applyVars, dispatch>>
    /\ UNCHANGED <<variants, idx, rv, has_mandatory_hashes,
                   mandatory_contributing_hashes, optional_contributing_variants,
                   prevent_contribution, dedup_idx, calls, produced, outcome>>

\* f returns {variant: component}; the scope closes; the component is filed.
LoopBody(component) ==
    /\ pc = "in_f"
    /\ Len(stack) = ScopeDepth("in_f")
    /\ calls' = Append(calls, CtxGet(stack, "variant"))
    /\ produced' = NextRv(produced, variant, component)
    /\ stack' = Pop(stack)
    /\ IF Skipped(component)
       THEN UNCHANGED <<rv, has_mandatory_hashes, mandatory_contributing_hashes,
                        optional_contributing_variants>>
       ELSE /\ has_mandatory_hashes' =
                  NextHasMandatory(has_mandatory_hashes, is_mandatory)
            /\ mandatory_contributing_hashes' =
                  NextMandatoryHashes(mandatory_contributing_hashes, is_mandatory,
                                      component, variant)
            /\ optional_contributing_variants' =
                  NextOptionalVariants(optional_contributing_variants, is_mandatory,
                                       component, variant)
            /\ rv' = NextRv(rv, variant, component)
    /\ idx' = idx + 1
    /\ pc' = "loop"
    /\ UNCHANGED <<cfgVars, applyVars, dispatch>>
    /\ UNCHANGED <<variants, is_mandatory, variant, prevent_contribution, dedup_idx,
                   outcome>>

\* f raises inside the candidate's scope (or its result fails the assert or the
\* lookup of lines 331-332): __exit__ pops and the error leaves call_with_variants.
LoopRaise ==
    /\ pc = "in_f"
    /\ Len(stack) = ScopeDepth("in_f")
    /\ calls' = Append(calls, CtxGet(stack, "variant"))
    /\ stack' = Pop(stack)
    /\ outcome' = "StrategyError"
    /\ pc' = "f_raised"
    /\ UNCHANGED <<cfgVars, applyVars, dispatch>>
    /\ UNCHANGED <<variants, idx, is_mandatory, variant, rv, has_mandatory_hashes,
                   mandatory_contributing_hashes, optional_contributing_variants,
                   prevent_contribution, dedup_idx, produced>>

\* The candidate loop is exhausted: prevent_contribution is computed.
LoopExit ==
    /\ pc = "loop"
    /\ idx > Len(variants)
    /\ prevent_contribution' =
          PreventContribution(has_mandatory_hashes, mandatory_contributing_hashes)
    /\ dedup_idx' = 1
    /\ pc' = "dedup"
    /\ UNCHANGED <<cfgVars, applyVars, dispatch>>
    /\ UNCHANGED <<variants, stack, idx, is_mandatory, variant, rv,
                   has_mandatory_hashes, mandatory_contributing_hashes,
                   optional_contributing_variants, calls, produced, outcome>>

\* One round of `for variant in optional_contributing_variants`.
DedupStep ==
    /\ pc = "dedup"
    /\ dedup_idx <= Len(optional_contributing_variants)
    /\ variant' = optional_contributing_variants[dedup_idx]
    /\ rv' = [rv EXCEPT ![optional_contributing_variants[dedup_idx]] =
                Dedup(@, prevent_contribution, mandatory_contributing_hashes)]
    /\ dedup_idx' = dedup_idx + 1
    /\ UNCHANGED <<cfgVars, applyVars, dispatch>>
    /\ UNCHANGED <<pc, variants, stack, idx, is_mandatory, has_mandatory_hashes,
                   mandatory_contributing_hashes, optional_contributing_variants,
                   prevent_contribution, calls, produced, outcome>>

\* return rv
CwvReturn ==
    /\ pc = "dedup"
    /\ dedup_idx > Len(optional_contributing_variants)
    /\ pc' = "return"
    /\ UNCHANGED <<cfgVars, applyVars, dispatch>>
    /\ UNCHANGED <<variants, stack, idx, is_mandatory, variant, rv,
                   has_mandatory_hashes, mandatory_contributing_hashes,
                   optional_contributing_variants, prevent_contribution, dedup_idx,
                   calls, produced, outcome>>

\* GroupingContext.__exit__ of Strategy.get_grouping_component's scope.
StrategyExit ==
    /\ pc \in {"return", "raise", "f_raised"}
    /\ stack' = Pop(stack)
    /\ outcome' = IF pc = "return" THEN "returned" ELSE outcome
    /\ pc' = "done"
    /\ UNCHANGED <<cfgVars, applyVars, dispatch>>
    /\ UNCHANGED <<variants, idx, is_mandatory, variant, rv, has_mandatory_hashes,
                   mandatory_contributing_hashes, optional_contributing_variants,
                   prevent_contribution, dedup_idx, calls, produced>>

\* get_grouping_component_variants around get_grouping_component(variant=None):
\* {} when it returned None, else its mapping, through the variant processor if
\* the strategy has one.
VariantsReturn(has_processor) ==
    /\ pc = "done"
    /\ \/ outcome = "not_applicable"
       \/ outcome = "returned" /\ idx >= 1
    /\ gcv_result' = IF outcome = "not_applicable" THEN <<"{}">>
                      ELSE IF has_processor THEN <<"processed">>
                      ELSE <<"variants">>
    /\ pc' = "variants_done"
    /\ UNCHANGED <<cfgVars, dispatch>>
    /\ UNCHANGED <<variants, stack, idx, is_mandatory, variant, rv,
                   has_mandatory_hashes, mandatory_contributing_hashes,
                   optional_contributing_variants, prevent_contribution, dedup_idx,
                   calls, produced, outcome, bound_interfaces, event>>

NextCV ==
    \/ \E arg \in VariantArgs : StrategyEnter(AllPresent(bound_interfaces, event), arg)
    \/ \E has_processor \in BOOLEAN : VariantsReturn(has_processor)
    \/ CwvEntry
    \/ \E component \in Components \cup {NoComponent} : DelegateCall(component)
    \/ StrategyWrites
    \/ DelegateRaise
    \/ LoopEnter
    \/ \E component \in Components \cup {NoComponent} : LoopBody(component)
    \/ LoopRaise
    \/ LoopExit
    \/ DedupStep
    \/ CwvReturn
    \/ StrategyExit

----------------------------------------------------------------------------
(* Strategy registry *)

\* id.split(":", 1)[0]
RECURSIVE SplitFirst(_)
SplitFirst(id) ==
    IF id = <<>> \/ Head(id) = ":" THEN <<>> ELSE <<Head(id)>> \o SplitFirst(Tail(id))

\* Strategy.__init__
Strategy(id, interfaces, score) ==
    [id |-> id, strategy_class |-> SplitFirst(id), interfaces |-> interfaces,
     score |-> score]

\* Python's None as a score.
NoScore == -1

StrategyIds ==
    {<<"a", ":", "1">>, <<"a", ":", "2">>, <<"b", ":", "1">>, <<"u", ":", "1">>,
     <<"c", ":", "1">>}

\* The registry after the strategy modules are imported: two versions of class a,
\* one of class b, an unscored delegate-only strategy u:1; c:1 is never registered.
Registered ==
    LET put(id, interfaces, score) == id :> Strategy(id, interfaces, score)
    IN  put(<<"a", ":", "1">>, <<"x">>, 1) @@
        put(<<"a", ":", "2">>, <<"x", "y">>, 2) @@
        put(<<"b", ":", "1">>, <<"y">>, 1) @@
        put(<<"u", ":", "1">>, <<"z">>, NoScore)

\* The entries stored while the strategy modules are imported, in order.
ImportLog ==
    LET entry(id, interfaces, score) ==
            [id |-> id, strategy |-> Strategy(id, interfaces, score)]
    IN  << entry(<<"a", ":", "1">>, <<"x">>, 1),
           entry(<<"a", ":", "2">>, <<"x", "y">>, 2),
           entry(<<"b", ":", "1">>, <<"y">>, 1),
           entry(<<"u", ":", "1">>, <<"z">>, NoScore) >>

\* lookup_strategy: the entry, or LookupError.
Known(registry, id) == id \in DOMAIN registry

\* lookup_strategy as a function of the registry.
LookupStrategy(registry, id) ==
    IF Known(registry, id) THEN [error |-> "none", strategy |-> registry[id]]
    ELSE [error |-> "LookupError", strategy |-> Strategy(<<>>, <<>>, NoScore)]

\* Store that leaves an id's earlier entry in place.
Store_KeepOld(registry, id, registered) ==
    IF id \in DOMAIN registry THEN registry
    ELSE [i \in DOMAIN registry \cup {id} |->
            IF i = id THEN registered ELSE registry[i]]

\* STRATEGIES[id] = Strategy(...)
Store(registry, id, registered) ==
    [i \in DOMAIN registry \cup {id} |-> IF i = id THEN registered ELSE registry[i]]

\* for id in ids: STRATEGIES[id] = rv = Strategy(id=id, ...)
RECURSIVE StoreAll(_, _, _, _)
StoreAll(registry, ids, interfaces, score) ==
    IF ids = <<>> THEN registry
    ELSE StoreAll(Store(registry, Head(ids), Strategy(Head(ids), interfaces, score)),
                  Tail(ids), interfaces, score)

\* The entries one decoration stores, in order.
Stored(ids, interfaces, score) ==
    [k \in 1..Len(ids) |->
        [id |-> ids[k], strategy |-> Strategy(ids[k], interfaces, score)]]

\* Arguments of the decorator, <<>>-wrapped None standing for an omitted one.
RegistrationIds == {<<"a", ":", "1">>, <<"b", ":", "1">>}

IdArgs == {None} \cup RegistrationIds

IdsArgs ==
    {None} \cup UNION {[1..n -> RegistrationIds] : n \in 0..2}

InterfacesArgs == {None, <<"x">>, <<"x", "y">>}

ScoreArgs == {NoScore, 1, 2}

\* The error strategy(...) or its decorator raises, if any.
RegistrationError(id, ids, interfaces, named) ==
    IF interfaces = None THEN "TypeError"
    ELSE IF ~named /\ Len(interfaces) # 1 THEN "RuntimeError"
    ELSE IF id # None /\ ids # None THEN "TypeError"
    ELSE IF id = None /\ ids = None THEN "TypeError"
    ELSE IF id = None /\ ids = <<>> THEN "UnboundLocalError"
    ELSE "none"

\* @strategy(id=..., ids=..., interfaces=..., name=..., score=...) applied to f.
Register(id, ids, interfaces, named, score) ==
    /\ LET error == RegistrationError(id, ids, interfaces, named)
           targets == IF id # None THEN <<id>> ELSE ids
       IN  IF error # "none"
           THEN UNCHANGED <<STRATEGIES, registrations>>
           ELSE /\ Len(registrations) + Len(targets) <= MaxRegistrations
                /\ STRATEGIES' = StoreAll(STRATEGIES, targets, interfaces, score)
                /\ registrations' =
                      registrations \o Stored(targets, interfaces, score)
    /\ UNCHANGED <<config, build, cvVars>>

NextRegistry ==
    \E id \in IdArgs, ids \in IdsArgs, interfaces \in InterfacesArgs,
       named \in BOOLEAN, score \in ScoreArgs :
        Register(id, ids, interfaces, named, score)

----------------------------------------------------------------------------
(* create_strategy_configuration *)

NoConfig ==
    [exists |-> FALSE, strategies |-> EmptyMap, delegates |-> EmptyMap,
     initial_context |-> EmptyMap]

\* SeedOf that starts from empty maps whatever the base.
SeedOf_Empty(base, field) == EmptyMap

\* dict(base.strategies) if base else {}
SeedOf(base, field) == IF base.exists THEN base[field] ELSE EmptyMap

\* by_class.setdefault(strategy.strategy_class, []).append(strategy.id), over the
\* seeded strategies only.
ByClass(seeded) ==
    [c \in {seeded[k].strategy_class : k \in DOMAIN seeded} |->
        {seeded[k].id : k \in {j \in DOMAIN seeded : seeded[j].strategy_class = c}}]

\* for old_id in by_class.get(strategy.strategy_class) or ()
OldIds(by_class, class) == IF class \in DOMAIN by_class THEN by_class[class] ELSE {}

\* strategies.pop(old_id, None) for each old id; strategies[strategy_id] = strategy
Install(strategies, old_ids, strategy_id, strategy) ==
    [k \in (DOMAIN strategies \ old_ids) \cup {strategy_id} |->
        IF k = strategy_id THEN strategy ELSE strategies[k]]

\* The `for strategy_id in strategies or {}` loop.
RECURSIVE AddStrategies(_, _, _, _)
AddStrategies(registry, by_class, strategies, requested) ==
    IF requested = <<>> THEN [error |-> "none", strategies |-> strategies]
    ELSE IF ~Known(registry, Head(requested))
         THEN [error |-> "LookupError", strategies |-> strategies]
    ELSE IF registry[Head(requested)].score = NoScore
         THEN [error |-> "UnscoredStrategy", strategies |-> strategies]
    ELSE AddStrategies(registry, by_class,
            Install(strategies,
                    OldIds(by_class, registry[Head(requested)].strategy_class),
                    Head(requested), registry[Head(requested)]),
            Tail(requested))

\* if interface in new_delegates: raise RuntimeError("duplicate interface match ...")
Conflicts(interface, new_delegates) == interface \in new_delegates

\* ClaimInterfaces testing the interface against every bound delegate, the
\* inherited ones included.
RECURSIVE ClaimInterfaces_AnyBound(_, _, _, _)
ClaimInterfaces_AnyBound(delegates, new_delegates, strategy, interfaces) ==
    IF interfaces = <<>>
    THEN [error |-> "none", delegates |-> delegates, new_delegates |-> new_delegates]
    ELSE IF Head(interfaces) \in DOMAIN delegates
         THEN [error |-> "DuplicateDelegate", delegates |-> delegates,
               new_delegates |-> new_delegates]
    ELSE ClaimInterfaces_AnyBound(
            [i \in DOMAIN delegates \cup {Head(interfaces)} |->
                IF i = Head(interfaces) THEN strategy ELSE delegates[i]],
            new_delegates \cup {Head(interfaces)}, strategy, Tail(interfaces))

\* The `for interface in strategy.interfaces` loop of one delegate.
RECURSIVE ClaimInterfaces(_, _, _, _)
ClaimInterfaces(delegates, new_delegates, strategy, interfaces) ==
    IF interfaces = <<>>
    THEN [error |-> "none", delegates |-> delegates, new_delegates |-> new_delegates]
    ELSE IF Conflicts(Head(interfaces), new_delegates)
         THEN [error |-> "DuplicateDelegate", delegates |-> delegates,
               new_delegates |-> new_delegates]
    ELSE ClaimInterfaces(
            [i \in DOMAIN delegates \cup {Head(interfaces)} |->
                IF i = Head(interfaces) THEN strategy ELSE delegates[i]],
            new_delegates \cup {Head(interfaces)}, strategy, Tail(interfaces))

\* The `for strategy_id in delegates or ()` loop.
RECURSIVE AddDelegates(_, _, _, _)
AddDelegates(registry, delegates, new_delegates, requested) ==
    IF requested = <<>> THEN [error |-> "none", delegates |-> delegates]
    ELSE IF ~Known(registry, Head(requested))
         THEN [error |-> "LookupError", delegates |-> delegates]
    ELSE LET claimed == ClaimInterfaces(delegates, new_delegates,
                            registry[Head(requested)],
                            registry[Head(requested)].interfaces)
         IN  IF claimed.error # "none"
             THEN [error |-> claimed.error, delegates |-> claimed.delegates]
             ELSE AddDelegates(registry, claimed.delegates, claimed.new_delegates,
                               Tail(requested))

\* initial_context.update(initial_context)
Merge(inherited, overrides) ==
    [k \in DOMAIN inherited \cup DOMAIN overrides |->
        IF k \in DOMAIN overrides THEN overrides[k] ELSE inherited[k]]

\* The whole function: the error raised, and the class object returned.
CreateStrategyConfiguration(registry, base, strategies, delegates, initial_context) ==
    LET seeded == SeedOf(base, "strategies")
        added == AddStrategies(registry, ByClass(seeded), seeded, strategies)
        bound == AddDelegates(registry, SeedOf(base, "delegates"), {}, delegates)
    IN  IF added.error # "none" THEN [error |-> added.error, config |-> NoConfig]
        ELSE IF bound.error # "none" THEN [error |-> bound.error, config |-> NoConfig]
        ELSE [error |-> "none",
              config |-> [exists |-> TRUE,
                          strategies |-> added.strategies,
                          delegates |-> bound.delegates,
                          initial_context |->
                              Merge(SeedOf(base, "initial_context"), initial_context)]]

\* The three dicts of a configuration class.
ConfigFields == {"strategies", "delegates", "initial_context"}

\* SeedObject that hands the base's own dict to the new class.
SeedObject_Shared(base, field) == IF base.exists THEN "base" ELSE "own"

\* Which dict object the new class's field is bound to: dict(...) and {} both make a
\* new one ("own"), never the base's ("base").
SeedObject(base, field) == "own"

\* The new class's dicts when the function ends, by return or by raise.
Working(registry, base, strategies, delegates, initial_context) ==
    LET seeded == SeedOf(base, "strategies")
        added == AddStrategies(registry, ByClass(seeded), seeded, strategies)
        bound == AddDelegates(registry, SeedOf(base, "delegates"), {}, delegates)
    IN  [strategies |-> added.strategies,
         delegates |-> IF added.error # "none" THEN SeedOf(base, "delegates")
                       ELSE bound.delegates,
         initial_context |->
             IF added.error # "none" \/ bound.error # "none"
             THEN SeedOf(base, "initial_context")
             ELSE Merge(SeedOf(base, "initial_context"), initial_context)]

\* The base's dicts after the call: a dict the new class is bound to as well holds
\* what the function wrote into it.
BaseAfter(base, working) ==
    IF ~base.exists THEN base
    ELSE [f \in DOMAIN base |->
            IF f \in ConfigFields /\ SeedObject(base, f) = "base"
            THEN working[f] ELSE base[f]]

IdLists == UNION {[1..n -> StrategyIds] : n \in 0..MaxRequested}

\* The lists a caller may request: at most MaxRequested ids over both lists.
Requests ==
    {r \in [strategies : IdLists, delegates : IdLists] :
        Len(r.strategies) + Len(r.delegates) <= MaxRequested}

InitialContexts == {"k" :> "v"}

\* No call of create_strategy_configuration is in progress.
NoBuild ==
    [active |-> FALSE, base |-> NoConfig, strategies |-> <<>>,
     delegates |-> <<>>, initial_context |-> EmptyMap, error |-> "none",
     result |-> NoConfig, objects |-> [f \in ConfigFields |-> "own"]]

InitCfg ==
    /\ STRATEGIES = Registered
    /\ registrations = ImportLog
    /\ config = NoConfig
    /\ build = NoBuild

\* create_strategy_configuration is called, on no base or on the configuration built
\* last, and runs until it returns or raises.
Build(base, strategies, delegates, initial_context) ==
    /\ ~build.active
    /\ LET made == CreateStrategyConfiguration(STRATEGIES, base, strategies,
                                               delegates, initial_context)
       IN  build' = [active |-> TRUE, base |-> base,
                     strategies |-> strategies, delegates |-> delegates,
                     initial_context |-> initial_context, error |-> made.error,
                     result |-> made.config,
                     objects |-> [f \in ConfigFields |-> SeedObject(base, f)]]
    /\ config' = IF base = config
                 THEN BaseAfter(config, Working(STRATEGIES, base, strategies,
                                                delegates, initial_context))
                 ELSE config
    /\ UNCHANGED <<STRATEGIES, registrations, cvVars>>

\* The caller receives the new configuration (or the error); the call is over.
BuildReturn ==
    /\ build.active
    /\ config' = IF build.error = "none" THEN build.result ELSE config
    /\ build' = NoBuild
    /\ UNCHANGED <<STRATEGIES, registrations, cvVars>>

\* A caller builds a configuration from some lists, on no base or on the last one.
BuildCall ==
    /\ ~build.active
    /\ \E base \in {NoConfig, config}, r \in Requests,
          initial_context \in InitialContexts :
            Build(base, r.strategies, r.delegates, initial_context)

NextCfg ==
    \/ BuildCall
    \/ BuildReturn

ShortIdLists == UNION {[1..n -> StrategyIds] : n \in 0..MaxSharedRequested}

ShortRequests ==
    {r \in [strategies : ShortIdLists, delegates : ShortIdLists] :
        Len(r.strategies) + Len(r.delegates) <= MaxSharedRequested}

\* BuildCall with short lists.
ShortBuildCall ==
    /\ ~build.active
    /\ \E base \in {NoConfig, config}, r \in ShortRequests,
          initial_context \in InitialContexts :
            Build(base, r.strategies, r.delegates, initial_context)

\* A change made to one of a class's dicts by code holding the class: the dict is
\* cleared, or given an entry when it is empty.
Changed(field, map) ==
    IF map # EmptyMap THEN EmptyMap
    ELSE IF field = "strategies"
         THEN <<"b", ":", "1">> :> Registered[<<"b", ":", "1">>]
    ELSE IF field = "delegates" THEN "y" :> Registered[<<"b", ":", "1">>]
    ELSE "m" :> "w"

\* After a configuration was built from it, one of the base's dicts is changed; the
\* new class sees the change in a dict it is bound to as well.
MutateBase(field) ==
    /\ build.active /\ build.error = "none" /\ build.base.exists
    /\ config' = [config EXCEPT ![field] = Changed(field, @)]
    /\ build' = IF build.objects[field] = "base"
                THEN [build EXCEPT !.result[field] = Changed(field, config[field])]
                ELSE build
    /\ UNCHANGED <<STRATEGIES, registrations, cvVars>>

NextShare ==
    \/ ShortBuildCall
    \/ BuildReturn
    \/ \E field \in ConfigFields : MutateBase(field)

----------------------------------------------------------------------------
(* Specifications *)

Init == InitCV /\ InitCfg

Next == NextCV \/ NextCfg

Spec == Init /\ [][Next]_vars

\* One evaluation of a strategy decorated with produces_variants, on an event that
\* carries interface x only.
InitEvaluation == Init /\ event = {"x"}

SpecCV == InitEvaluation /\ [][NextCV]_vars

\* Every event against every interface list, for short candidate lists.
InitApply == Init /\ Len(variants) <= MaxApplyVariants

SpecApply == InitApply /\ [][NextCV]_vars

\* While f runs it calls another strategy, whose scope (`with context`, in
\* Strategy.get_grouping_component or in a candidate loop) opens on the same context.
NestedEnter(name) ==
    /\ pc \in {"in_f", "delegate"}
    /\ Len(stack) < MaxNestedDepth
    /\ stack' = CtxSet(Push(stack), "variant", name)
    /\ UNCHANGED <<cfgVars, applyVars, dispatch>>
    /\ UNCHANGED <<pc, variants, idx, is_mandatory, variant, rv,
                   has_mandatory_hashes, mandatory_contributing_hashes,
                   optional_contributing_variants, prevent_contribution, dedup_idx,
                   calls, produced, outcome>>

\* The nested call ends, by return or by raise: __exit__ closes its scope.
NestedExit ==
    /\ pc \in {"in_f", "delegate"}
    /\ Len(stack) > ScopeDepth(pc)
    /\ stack' = Pop(stack)
    /\ UNCHANGED <<cfgVars, applyVars, dispatch>>
    /\ UNCHANGED <<pc, variants, idx, is_mandatory, variant, rv,
                   has_mandatory_hashes, mandatory_contributing_hashes,
                   optional_contributing_variants, prevent_contribution, dedup_idx,
                   calls, produced, outcome>>

NextNested ==
    \/ NextCV
    \/ \E name \in VariantNames : NestedEnter(name)
    \/ NestedExit

\* Evaluations whose strategy function calls other strategies.
SpecNested == InitApply /\ [][NextNested]_vars

\* Composition of configurations; the decorated strategy declares no candidate.
InitComposition == Init /\ variants = <<>> /\ bound_interfaces = <<"x">> /\ event = {"x"}

SpecCfg == InitComposition /\ [][NextCfg]_vars

\* Composition, with the base changed after a configuration was built from it.
SpecShare == InitComposition /\ [][NextShare]_vars

----------------------------------------------------------------------------
(* Variant resolution: what the claims speak of *)

\* call_with_variants has returned its mapping (the caller's scope is still open).
Returned == pc = "return"

\* The variant the caller pinned, read where call_with_variants reads it.
Pinned == CtxGet(stack, "variant")

\* The declared candidates, by name, split by the "!" marker.
MandatoryNames ==
    {LStrip(variants[k]) : k \in {j \in 1..Len(variants) : IsMandatory(variants[j])}}

OptionalNames ==
    {LStrip(variants[k]) : k \in {j \in 1..Len(variants) : ~IsMandatory(variants[j])}}

DeclaredNames == MandatoryNames \cup OptionalNames

\* The mandatory candidates whose component, as f returned it, contributes.
MandatoryContributing == {m \in MandatoryNames : produced[m].contributes}

\* The optional candidates whose component, as f returned it, contributes.
OptionalContributing == {o \in OptionalNames : produced[o].contributes}

\* C1: with no variant pinned and at least one mandatory candidate declared, if no
\* mandatory candidate yields a contributing component (null or non-contributing),
\* every optional component that was contributing is returned with contributes=False.
C1_MandatoryEmptySuppressesOptional ==
    (Returned /\ Pinned = None /\ MandatoryNames # {} /\ MandatoryContributing = {})
        => \A o \in OptionalContributing : ~rv[o].contributes

\* C2: Scenario B (["!system", "app"], system null, app contributing) leaves app
\* non-contributing with the hint "ignored because system variant is not used"; and
\* whenever the mandatory-empty rule fires with exactly one mandatory candidate
\* declared, the hint names that candidate, not "other mandatory".
C2_HintNamesTheMandatoryVariant ==
    /\ (/\ Returned /\ Pinned = None
        /\ variants = << <<"!", "system">>, <<"app">> >>
        /\ produced[<<"system">>].isNone
        /\ produced[<<"app">>].contributes)
        => /\ <<"app">> \in DOMAIN rv
           /\ ~rv[<<"app">>].contributes
           /\ rv[<<"app">>].hint =
                <<"ignored because ", "system", " variant is not used">>
    /\ (Returned /\ Pinned = None /\ prevent_contribution
            /\ Cardinality(MandatoryNames) = 1)
        => \A o \in OptionalContributing : \A m \in MandatoryNames :
              rv[o].hint = <<"ignored because ">> \o m \o <<" variant is not used">>

\* C3: with no variant pinned and some mandatory component contributing, an optional
\* contributing component ends non-contributing with the hint "ignored because hash
\* matches <name> variant" exactly when its hash is that of a contributing mandatory
\* component, <name> being a mandatory variant that produced the hash; otherwise it
\* is returned as f produced it.
C3_HashMatchSuppression ==
    (Returned /\ Pinned = None /\ MandatoryContributing # {})
        => \A o \in OptionalContributing :
              LET same == {m \in MandatoryContributing :
                              produced[m].hash = produced[o].hash}
              IN  IF same # {}
                  THEN /\ ~rv[o].contributes
                       /\ \E m \in same :
                            rv[o].hint =
                              <<"ignored because hash matches ">> \o m \o <<" variant">>
                  ELSE rv[o] = produced[o]

\* Scenario A has run: ["!system", "app"], both contributing with hash h1.
C3_Witness ==
    /\ Returned /\ Pinned = None
    /\ variants = << <<"!", "system">>, <<"app">> >>
    /\ produced[<<"system">>].contributes /\ produced[<<"system">>].hash = "h1"
    /\ produced[<<"app">>].contributes /\ produced[<<"app">>].hash = "h1"
    /\ rv[<<"app">>].hint = <<"ignored because hash matches ", "system", " variant">>
    /\ rv[<<"system">>] = produced[<<"system">>]

C5_NoMandatoryNoUpdate ==
    MandatoryNames = {} => \A n \in DOMAIN rv : rv[n] = produced[n]

\* Two optional contributing components with equal hashes went through the dedup loop.
C5_Witness ==
    /\ Returned /\ Pinned = None /\ MandatoryNames = {}
    /\ dedup_idx > 2
    /\ \E a, b \in OptionalContributing :
          a # b /\ produced[a].hash = produced[b].hash /\ rv[a].contributes

\* C6: with the variant pinned by the caller to a declared candidate's name, f is
\* invoked exactly once, under that name, the candidates are not iterated, no update
\* is applied and f's result is returned as it is; with a pinned name that is not a
\* declared candidate the call fails and f is not invoked.
C6_DelegateCase ==
    (pc \in {"delegate", "return", "raise"} /\ Pinned # None)
        => IF Pinned \in DeclaredNames
           THEN /\ pc # "raise"
                /\ idx = 0 /\ dedup_idx = 0 /\ Len(stack) = 3
                /\ pc = "return" =>
                      /\ calls = <<Pinned>>
                      /\ rv = produced
                      /\ DOMAIN rv = {Pinned}
           ELSE pc = "raise" /\ outcome = "AssertionError" /\ calls = <<>>

\* Scenario C with a mandatory candidate: pinned to "system" against ["!system", "app"].
C6_Witness ==
    /\ Returned /\ Pinned = <<"system">>
    /\ variants = << <<"!", "system">>, <<"app">> >>
    /\ calls = << <<"system">> >>
    /\ rv[<<"system">>].contributes

----------------------------------------------------------------------------
(* Configuration composition: what the claims speak of *)

\* create_strategy_configuration has returned a configuration.
Built == build.active /\ build.error = "none"

ClassOf(id) == STRATEGIES[id].strategy_class

\* The classes of the strategies requested in the call.
RequestedClasses ==
    {ClassOf(id) : id \in Range(build.strategies) \cap DOMAIN STRATEGIES}

\* C7: in every built configuration, along any chain of bases and for any requested
\* list, no two active strategies share a strategy_class.
C7_OneActiveStrategyPerClass ==
    Built => \A j, k \in DOMAIN build.result.strategies :
                j # k => build.result.strategies[j].strategy_class #
                         build.result.strategies[k].strategy_class

\* C8: for every class requested, the active strategy of that class is the last one
\* requested for the class, and the earlier ones are evicted.
C8_LastRequestedOfClassWins ==
    Built => \A c \in RequestedClasses :
                LET at == {n \in 1..Len(build.strategies) :
                              ClassOf(build.strategies[n]) = c}
                    last == CHOOSE n \in at : \A other \in at : other <= n
                IN  {k \in DOMAIN build.result.strategies :
                        build.result.strategies[k].strategy_class = c}
                    = {build.strategies[last]}

\* C9: every strategy of the base whose class is not the class of a requested
\* strategy is active in the derived configuration, bound to the same Strategy; every
\* interface bound to a delegate in the base is still bound.
C9_NothingRemovedByDeriving ==
    (Built /\ build.base.exists)
        => /\ \A k \in DOMAIN build.base.strategies :
                build.base.strategies[k].strategy_class \notin RequestedClasses
                    => /\ k \in DOMAIN build.result.strategies
                       /\ build.result.strategies[k] = build.base.strategies[k]
           /\ DOMAIN build.base.delegates \subseteq DOMAIN build.result.delegates

\* A base with strategies of two classes and a delegate is derived, one class and
\* another delegate being requested.
C9_Witness ==
    /\ Built /\ build.base.exists
    /\ build.strategies # <<>> /\ build.delegates # <<>>
    /\ DOMAIN build.base.delegates # {}
    /\ \E j, k \in DOMAIN build.base.strategies :
          /\ build.base.strategies[j].strategy_class \in RequestedClasses
          /\ build.base.strategies[k].strategy_class \notin RequestedClasses
          /\ j \notin DOMAIN build.result.strategies

\* The interfaces claimed by the delegates requested in the call, in order.
RECURSIVE ClaimsOf(_)
ClaimsOf(ids) ==
    IF ids = <<>> THEN <<>>
    ELSE (IF Head(ids) \in DOMAIN STRATEGIES
          THEN STRATEGIES[Head(ids)].interfaces ELSE <<>>) \o ClaimsOf(Tail(ids))

\* Two of the claims name the same interface.
Clash(claims) == \E a, b \in 1..Len(claims) : a < b /\ claims[a] = claims[b]

\* Every requested strategy id is registered and scored.
StrategiesPass ==
    \A id \in Range(build.strategies) :
        id \in DOMAIN STRATEGIES /\ STRATEGIES[id].score # NoScore

\* The claims of the first n delegates clash and those n delegates are registered.
ClashReached ==
    \E n \in 1..Len(build.delegates) :
        /\ \A j \in 1..n : build.delegates[j] \in DOMAIN STRATEGIES
        /\ Clash(ClaimsOf(SubSeq(build.delegates, 1, n)))

\* A newly added delegate takes every interface it claims, inherited or not; the
\* other inherited bindings stay.
NewDelegatesReplace ==
    Built =>
        /\ \A d \in Range(build.delegates) : \A i \in Range(STRATEGIES[d].interfaces) :
              build.result.delegates[i] = STRATEGIES[d]
        /\ \A i \in DOMAIN build.base.delegates :
              i \notin Range(ClaimsOf(build.delegates))
                  => build.result.delegates[i] = build.base.delegates[i]

\* C10 as stated: the call fails with the duplicate-delegate error exactly when two
\* interface claims among the newly added delegates name the same interface; a new
\* delegate on an interface bound by an inherited delegate replaces that binding.
C10_DuplicateExactlyOnClash ==
    /\ build.active =>
          (build.error = "DuplicateDelegate" <=> Clash(ClaimsOf(build.delegates)))
    /\ NewDelegatesReplace

\* C10 amended: the call fails with the duplicate-delegate error exactly when two
\* interface claims among the newly added delegates name the same interface and no
\* unknown-strategy or unscored-strategy error is raised before the second of them is
\* processed; a new delegate on an interface bound by an inherited delegate is no
\* error and replaces that binding.
C10_DuplicateOnClashReached ==
    /\ build.active =>
          (build.error = "DuplicateDelegate" <=> (StrategiesPass /\ ClashReached))
    /\ NewDelegatesReplace

\* On a base that binds interface x, two new delegates both claim x: the call fails;
\* the inherited binding is what the clash is not about.
C10_Witness ==
    /\ build.active /\ build.error = "DuplicateDelegate"
    /\ build.base.exists /\ "x" \in DOMAIN build.base.delegates
    /\ build.delegates = << <<"a", ":", "1">>, <<"a", ":", "2">> >>

----------------------------------------------------------------------------
(* Variant resolution, continued *)

\* The self-directed branch of call_with_variants is running or has returned.
SelfDirected == idx >= 1 /\ pc \in {"loop", "in_f", "dedup", "return"}

\* A candidate's name, read off the declared string.
NameOf(raw) == IF raw[1] = "!" THEN Tail(raw) ELSE raw

\* C17: with no variant pinned the returned mapping has an entry for exactly the
\* declared candidates whose component is not null; suppressed components stay in.
C17_ReturnsExactlyTheNonNull ==
    (Returned /\ SelfDirected)
        => DOMAIN rv = {n \in DeclaredNames : ~produced[n].isNone}

\* A null candidate is left out while a suppressed one is kept.
C17_Witness ==
    /\ Returned /\ SelfDirected
    /\ \E n \in DeclaredNames : produced[n].isNone
    /\ \E o \in DOMAIN rv : produced[o].contributes /\ ~rv[o].contributes

\* C18: with no variant pinned f is invoked once per declared candidate, in declared
\* order; during the i-th invocation context["variant"] reads the i-th candidate's
\* name without the marker; no update is applied before the last invocation has
\* finished; once the call returns context["variant"] reads None again.
C18_OneInvocationPerCandidateInOrder ==
    SelfDirected =>
        /\ Len(calls) = (IF pc \in {"loop", "in_f"} THEN idx - 1 ELSE Len(variants))
        /\ \A k \in 1..Len(calls) : calls[k] = NameOf(variants[k])
        /\ pc = "in_f" => Pinned = NameOf(variants[idx])
        /\ pc \in {"loop", "in_f"} => \A n \in DOMAIN rv : rv[n] = produced[n]
        /\ pc \in {"loop", "dedup", "return"} => Pinned = None

\* The third invocation runs under a mandatory candidate's bare name.
C18_Witness ==
    /\ SelfDirected /\ pc = "in_f" /\ idx = 3
    /\ IsMandatory(variants[3])
    /\ Pinned = Tail(variants[3])
    /\ Len(calls) = 2

\* Two mandatory components with the hash of an optional contributing component.
TieOn(o) ==
    {m \in MandatoryContributing : produced[m].hash = produced[o].hash}

\* Position of a candidate's name in the declared list.
PositionOf(name) == CHOOSE k \in 1..Len(variants) : NameOf(variants[k]) = name

\* C19 as stated: when an optional contributing component's hash is that of several
\* contributing mandatory components, the hint names the one declared first.
C19_HintNamesFirstDeclared ==
    (Returned /\ SelfDirected)
        => \A o \in OptionalContributing :
              TieOn(o) # {} =>
                  \E m \in TieOn(o) :
                      /\ \A other \in TieOn(o) : PositionOf(m) <= PositionOf(other)
                      /\ rv[o].hint =
                           <<"ignored because hash matches ">> \o m \o <<" variant">>

\* C19 amended: the hint names the one declared last.
C19_HintNamesLastDeclared ==
    (Returned /\ SelfDirected)
        => \A o \in OptionalContributing :
              TieOn(o) # {} =>
                  \E m \in TieOn(o) :
                      /\ \A other \in TieOn(o) : PositionOf(other) <= PositionOf(m)
                      /\ rv[o].hint =
                           <<"ignored because hash matches ">> \o m \o <<" variant">>

\* ["!system", "!frames", "app"], all three contributing with one hash.
C19_Witness ==
    /\ Returned /\ SelfDirected
    /\ variants = << <<"!", "system">>, <<"!", "frames">>, <<"app">> >>
    /\ TieOn(<<"app">>) = {<<"system">>, <<"frames">>}
    /\ rv[<<"app">>].hint = <<"ignored because hash matches ", "frames", " variant">>

----------------------------------------------------------------------------
(* Scoped use of the context *)

\* Keys read through the context.
ContextKeys == {"variant", "k"}

\* Depth and every key's reading.
Reading(st) == <<Len(st), [key \in ContextKeys |-> CtxGet(st, key)]>>

\* The context as constructed, before Strategy.get_grouping_component is called.
ReadingAtCall == <<2, [key \in ContextKeys |-> IF key = "variant" THEN None
                                               ELSE <<"<KeyError>">>]>>

\* The context inside Strategy.get_grouping_component's scope with no variant
\* pinned, where each candidate's scope is opened.
ReadingAtLoop == <<3, ReadingAtCall[2]>>

\* C12: scoped use is balanced on every exit path. After Strategy.get_grouping_component
\* finishes (return, early return, error) and after each candidate's scope in
\* call_with_variants finishes (return or error), the stack has the depth it had
\* before and every key, "variant" included, reads what it read before.
C12_ScopesAreBalanced ==
    /\ pc \in {"idle", "done", "variants_done"} => Reading(stack) = ReadingAtCall
    /\ (idx >= 1 /\ pc \in {"loop", "dedup", "return", "f_raised"})
          => Reading(stack) = ReadingAtLoop

\* f raised inside the second candidate's scope; the error has left that scope.
C12_Witness ==
    /\ pc = "f_raised" /\ outcome = "StrategyError"
    /\ idx = 2 /\ Len(calls) = 2
    /\ Reading(stack) = ReadingAtLoop

----------------------------------------------------------------------------
(* Strategies that do not apply to the event *)

\* At least one of the strategy's bound interfaces is absent from the event.
SomeAbsent == \E i \in 1..Len(bound_interfaces) : bound_interfaces[i] \notin event

\* C15: when at least one bound interface is absent from the event,
\* Strategy.get_grouping_component returns None: the wrapped function is never
\* invoked and the context's stack and values are unchanged, and
\* get_grouping_component_variants then returns {} without running the variant
\* processor.
C15_AbsentInterfaceMeansNotApplicable ==
    SomeAbsent =>
        /\ pc \in {"idle", "done", "variants_done"}
        /\ calls = <<>>
        /\ stack = NewContext(EmptyMap)
        /\ pc # "idle" => outcome = "not_applicable"
        /\ pc = "variants_done" => gcv_result = <<"{}">>
        /\ pc # "variants_done" => gcv_result = None

\* The first bound interface is present, the second is not.
C15_Witness ==
    /\ bound_interfaces = <<"x", "y">> /\ event = {"x"}
    /\ variants # <<>>
    /\ pc = "variants_done"
    /\ gcv_result = <<"{}">>

----------------------------------------------------------------------------
(* The context under free use of push, pop and item assignment *)

\* Values a caller stores.
ContextValues == {None, <<"app">>}

\* context.push()
DoPush ==
    /\ ~dispatch.active
    /\ Len(stack) < MaxDepth
    /\ stack' = Push(stack)
    /\ UNCHANGED <<cfgVars, dispatch>>
    /\ UNCHANGED <<pc, variants, idx, is_mandatory, variant, rv,
                   has_mandatory_hashes, mandatory_contributing_hashes,
                   optional_contributing_variants, prevent_contribution, dedup_idx,
                   calls, produced, outcome, applyVars>>

\* context.pop(); on an empty stack list.pop raises IndexError.
DoPop ==
    /\ ~dispatch.active
    /\ stack # <<>>
    /\ stack' = Pop(stack)
    /\ UNCHANGED <<cfgVars, dispatch>>
    /\ UNCHANGED <<pc, variants, idx, is_mandatory, variant, rv,
                   has_mandatory_hashes, mandatory_contributing_hashes,
                   optional_contributing_variants, prevent_contribution, dedup_idx,
                   calls, produced, outcome, applyVars>>

\* context[key] = value; on an empty stack self._stack[-1] raises IndexError.
DoSet(key, value) ==
    /\ ~dispatch.active
    /\ stack # <<>>
    /\ stack' = CtxSet(stack, key, value)
    /\ UNCHANGED <<cfgVars, dispatch>>
    /\ UNCHANGED <<pc, variants, idx, is_mandatory, variant, rv,
                   has_mandatory_hashes, mandatory_contributing_hashes,
                   optional_contributing_variants, prevent_contribution, dedup_idx,
                   calls, produced, outcome, applyVars>>

NextContext ==
    \/ DoPush
    \/ DoPop
    \/ \E key \in ContextKeys, value \in ContextValues : DoSet(key, value)

SpecContext == InitComposition /\ [][NextContext]_vars

\* The overlays that define a key, by position from the bottom.
Defining(st, key) == {i \in 1..Len(st) : key \in DOMAIN st[i]}

\* The topmost of them.
Topmost(st, key) == CHOOSE i \in Defining(st, key) : \A j \in Defining(st, key) : j <= i

\* get(key) reads the topmost overlay that defines the key and fails if none does.
GetReadsTopmost ==
    \A key \in ContextKeys :
        CtxGet(stack, key) = IF Defining(stack, key) = {} THEN <<"<KeyError>">>
                             ELSE stack[Topmost(stack, key)][key]

\* set(key, value) stores the value under the key in the topmost overlay and
\* changes nothing else.
SetChangesTopmostOnly ==
    \A key \in ContextKeys, value \in ContextValues :
        DoSet(key, value) =>
            /\ Len(stack') = Len(stack)
            /\ \A i \in 1..(Len(stack) - 1) : stack'[i] = stack[i]
            /\ DOMAIN stack'[Len(stack)] = DOMAIN stack[Len(stack)] \cup {key}
            /\ stack'[Len(stack)][key] = value
            /\ \A k \in DOMAIN stack[Len(stack)] \ {key} :
                  stack'[Len(stack)][k] = stack[Len(stack)][k]

\* C13: after any sequence of push, pop and set, get(key) returns the value that
\* set wrote into the topmost overlay defining the key, set changes the topmost
\* overlay only, and get of a key that no overlay defines fails with KeyError.
C13_GetReadsWhatSetWroteOnTop ==
    [](GetReadsTopmost) /\ [][SetChangesTopmostOnly]_vars

\* "variant" is defined in two overlays with different values, "k" below the top
\* only, and the lower definitions are shadowed or seen accordingly.
C13_Witness ==
    /\ pc = "idle" /\ Len(stack) = 3
    /\ Defining(stack, "variant") = {2, 3}
    /\ stack[2]["variant"] = None /\ stack[3]["variant"] = <<"app">>
    /\ Defining(stack, "k") = {1}
    /\ CtxGet(stack, "variant") = <<"app">>
    /\ CtxGet(stack, "k") = <<"app">>

----------------------------------------------------------------------------
(* GroupingContext.get_grouping_component: dispatch to a delegate *)

\* interface.path of the interfaces handed to the context.
Paths == {"x", "y"}

\* What a delegate returns: a dict of up to two variant names to components, or
\* something that is not a dict.
DelegateComponents ==
    {[isNone |-> FALSE, contributes |-> TRUE, hash |-> "h1", hint |-> None],
     [isNone |-> FALSE, contributes |-> FALSE, hash |-> "h2", hint |-> None]}

DelegateResults ==
    {[is_dict |-> TRUE, entries |-> m] :
        m \in UNION {[names -> DelegateComponents] :
                        names \in SUBSET {<<"app">>, <<"system">>}}}
    \cup {[is_dict |-> FALSE, entries |-> EmptyMap]}

\* Configurations a context is created for: no delegate, a delegate for x, delegates
\* for x and y.
DispatchConfigs ==
    {CreateStrategyConfiguration(Registered, NoConfig, <<>>, d, EmptyMap).config :
        d \in {<<>>, << <<"a", ":", "1">> >>, << <<"b", ":", "1">>, <<"a", ":", "1">> >>}}

\* What the method hands back: nothing (it raised), one component, or the mapping.
Raised(error) == [error |-> error, kind |-> "nothing", value |-> EmptyMap]

\* Unwrapped without the assertion on the number of entries.
Unwrapped_NoAssert(entries, pinned) ==
    IF pinned = <<"<KeyError>">> THEN Raised("KeyError")
    ELSE IF pinned = None
         THEN [error |-> "none", kind |-> "mapping", value |-> entries]
    ELSE IF pinned \notin DOMAIN entries THEN Raised("KeyError")
    ELSE [error |-> "none", kind |-> "component", value |-> entries[pinned]]

\* if self["variant"] is not None: assert len(rv) == 1; return rv[self["variant"]]
\* return rv
Unwrapped(entries, pinned) ==
    IF pinned = <<"<KeyError>">> THEN Raised("KeyError")
    ELSE IF pinned = None
         THEN [error |-> "none", kind |-> "mapping", value |-> entries]
    ELSE IF Cardinality(DOMAIN entries) # 1 THEN Raised("AssertionError")
    ELSE IF pinned \notin DOMAIN entries THEN Raised("KeyError")
    ELSE [error |-> "none", kind |-> "component", value |-> entries[pinned]]

\* The whole method, the delegate's return value given.
GetGroupingComponent(cfg, st, path, delegate_rv) ==
    IF path \notin DOMAIN cfg.delegates
    THEN [active |-> TRUE, path |-> path, invoked |-> <<>>,
          rv |-> [is_dict |-> FALSE, entries |-> EmptyMap],
          result |-> Raised("RuntimeError")]
    ELSE [active |-> TRUE, path |-> path,
          invoked |-> <<cfg.delegates[path].id>>, rv |-> delegate_rv,
          result |-> IF ~delegate_rv.is_dict THEN Raised("AssertionError")
                     ELSE Unwrapped(delegate_rv.entries, CtxGet(st, "variant"))]

\* context.get_grouping_component(interface) runs until it returns or raises.
Dispatch(path, delegate_rv) ==
    /\ ~dispatch.active
    /\ dispatch' = GetGroupingComponent(config, stack, path, delegate_rv)
    /\ UNCHANGED cfgVars
    /\ UNCHANGED <<pc, variants, stack, idx, is_mandatory, variant, rv,
                   has_mandatory_hashes, mandatory_contributing_hashes,
                   optional_contributing_variants, prevent_contribution, dedup_idx,
                   calls, produced, outcome, applyVars>>

\* The caller receives the component, the mapping or the error.
DispatchReturn ==
    /\ dispatch.active
    /\ dispatch' = NoDispatch
    /\ UNCHANGED cfgVars
    /\ UNCHANGED <<pc, variants, stack, idx, is_mandatory, variant, rv,
                   has_mandatory_hashes, mandatory_contributing_hashes,
                   optional_contributing_variants, prevent_contribution, dedup_idx,
                   calls, produced, outcome, applyVars>>

NextDispatch ==
    \/ DoPush
    \/ DoPop
    \/ \E key \in ContextKeys, value \in ContextValues : DoSet(key, value)
    \/ \E path \in Paths, delegate_rv \in DelegateResults : Dispatch(path, delegate_rv)
    \/ DispatchReturn

\* A context over a composed configuration, used freely.
InitDispatch ==
    /\ InitCV /\ variants = <<>> /\ bound_interfaces = <<"x">> /\ event = {"x"}
    /\ STRATEGIES = Registered
    /\ registrations = ImportLog
    /\ build = NoBuild
    /\ config \in DispatchConfigs

SpecDispatch == InitDispatch /\ [][NextDispatch]_vars

----------------------------------------------------------------------------
(* The registry under registration *)

\* The module as loaded: STRATEGIES = {}.
InitRegistry ==
    /\ InitCV /\ variants = <<>> /\ bound_interfaces = <<"x">> /\ event = {"x"}
    /\ STRATEGIES = EmptyMap
    /\ registrations = <<>>
    /\ config = NoConfig
    /\ build = NoBuild

SpecRegistry == InitRegistry /\ [][NextRegistry]_vars

\* The registrations made under an id, by position.
RegistrationsOf(id) == {k \in 1..Len(registrations) : registrations[k].id = id}

\* The most recent of them.
LatestOf(id) ==
    CHOOSE k \in RegistrationsOf(id) : \A j \in RegistrationsOf(id) : j <= k

\* C16: after any sequence of registrations lookup_strategy(id) returns the Strategy
\* of the most recent registration under that id (a second registration replaces the
\* first), registrations under other ids do not affect it, and the lookup of an id
\* never registered fails with the unknown-strategy error.
C16_LookupReturnsLatestRegistration ==
    \A id \in StrategyIds :
        IF RegistrationsOf(id) = {}
        THEN LookupStrategy(STRATEGIES, id).error = "LookupError"
        ELSE /\ LookupStrategy(STRATEGIES, id).error = "none"
             /\ LookupStrategy(STRATEGIES, id).strategy =
                   registrations[LatestOf(id)].strategy

\* a:1 was registered, then b:1, then a:1 again with other interfaces and score.
C16_Witness ==
    /\ Len(registrations) = 3
    /\ registrations[1].id = <<"a", ":", "1">>
    /\ registrations[2].id = <<"b", ":", "1">>
    /\ registrations[3].id = <<"a", ":", "1">>
    /\ registrations[1].strategy # registrations[3].strategy
    /\ LookupStrategy(STRATEGIES, <<"a", ":", "1">>).strategy = registrations[3].strategy
    /\ LookupStrategy(STRATEGIES, <<"b", ":", "1">>).strategy = registrations[2].strategy

----------------------------------------------------------------------------
(* A configuration and its base *)

\* create_strategy_configuration is called and runs to its end.
IsBuildStep == ~build.active /\ build'.active

\* One of the base's dicts is changed after the call.
IsBaseChange == build.active /\ build'.active /\ config' # config

\* C11: a derived configuration and its base share no mutable map. A call of
\* create_strategy_configuration with base B leaves B's strategies, delegates and
\* initial_context as they were whether it succeeds or fails, and a later change to
\* B's maps does not change the maps of a configuration already built from B.
C11_NoMapSharedWithBase ==
    /\ [][IsBuildStep => config' = config /\ build'.base \in {NoConfig, config}]_vars
    /\ [][IsBaseChange => build'.result = build.result]_vars

\* B had strategies and delegates, C was built from it with more of both, then B's
\* strategies were cleared: C still has B's.
C11_Witness ==
    /\ Built /\ build.base.exists
    /\ build.strategies # <<>> /\ build.delegates # <<>>
    /\ build.base.strategies # EmptyMap
    /\ config.strategies = EmptyMap
    /\ config.delegates = build.base.delegates
    /\ \E k \in DOMAIN build.base.strategies : k \in DOMAIN build.result.strategies

----------------------------------------------------------------------------
(* The configuration's initial_context under the context *)

\* C20: the context's bottom overlay is the configuration's initial_context dict
\* itself, and no write made through the constructor or through the scopes of
\* Strategy.get_grouping_component, call_with_variants and nested strategy calls
\* changes it: the stack is never less than 2 deep, so the bottom overlay is never
\* the one written, and another context created from the same configuration reads
\* what it read when the configuration was built.
C20_InitialContextNeverWritten ==
    /\ Len(stack) >= 2
    /\ stack[1] = config.initial_context
    /\ Reading(NewContext(stack[1])) = ReadingAtCall

\* f has written a key inside a scope opened by a nested call, two levels above the
\* candidate's scope of the top-level strategy.
C20_Witness ==
    /\ pc = "in_f" /\ Len(stack) = 5
    /\ "k" \in DOMAIN stack[5]
    /\ stack[5]["variant"] # stack[4]["variant"]
    /\ stack[1] = EmptyMap

====
